---- MODULE Spec2Model ----
(***************************************************************************)
(* Model of the drag-and-drop action tree builder, src/src/action.rs:      *)
(* Tree::from_list and the recursive Tree::from_iter over one shared       *)
(* peekable iterator.  Indices are 0-based as in the source; the TLA+      *)
(* sequence `list` is 1-based, so record i is list[i + 1].                 *)
(***************************************************************************)
EXTENDS Integers, Sequences, FiniteSets, TLC

VARIABLES
    list,            \* the &[CodeAction] given to from_list
    pos,             \* the shared iterator: number of records consumed
    stack,           \* the active from_iter calls, innermost last
    result,          \* <<"Init">>, <<"Running">>, <<"Ok", tree>> or <<"Err", string>>
    compiler_calls,  \* history: calls made on the Compiler, in order
    failed_at,       \* history: index of the record whose processing returned Err
    peeked,          \* history: <<i, p>> when condition i peeked for ELSE at cursor p
    branches_end     \* history: <<i, p>> when the branches of condition i ended at cursor p

vars == <<list, pos, stack, result, compiler_calls, failed_at, peeked, branches_end>>

----
\* kind:: and execution_type:: constants

kind_NORMAL == 0
kind_BEGIN_GROUP == 1
kind_END_GROUP == 2
kind_ELSE == 3
kind_EXIT == 4
kind_REPEAT == 5
kind_VARIABLE == 6
kind_CODE == 7

execution_type_NONE == 0
execution_type_FUNCTION == 1
execution_type_CODE == 2

NoIndex == 0 - 1

Range(s) == {s[k] : k \in 1..Len(s)}

Min(a, b) == IF a < b THEN a ELSE b

----
\* External collaborators: the builtin table and the GML compiler

\* mappings::FUNCTIONS as (name, function pointer) pairs
FUNCTIONS == {<<"action_move", "fp_action_move">>, <<"action_if", "fp_action_if">>}

\* Source texts the Compiler rejects
BadSources == {"bad_a", "bad_b", "bad_code"}

\* Error.message of the compiler's diagnostic for a rejected text
Message(text) == <<"syntax error in ", text>>

\* Compiler::compile_expression
compile_expression(text) ==
    IF text \in BadSources THEN <<"Err", Message(text)>> ELSE <<"Ok", <<"Node", text>>>>

\* Compiler::compile
compile(text) ==
    IF text \in BadSources THEN <<"Err", Message(text)>> ELSE <<"Ok", <<"Instructions", text>>>>

----
\* Pieces of Tree::from_iter

\* The record at 0-based index i of list l
Rec(l, i) == l[i + 1]

\* iter.peek() is Some(record) with the given kind
PeekKindIs(l, p, k) == p < Len(l) /\ Rec(l, p).action_kind = k

\* Mutation: a then/else parse never stops after its first record
StopImmediatelyNever(l, p, single_group) == FALSE

\* let stop_immediately = if peek is BEGIN_GROUP { false } else { single_group }
StopImmediately(l, p, single_group) ==
    IF PeekKindIs(l, p, kind_BEGIN_GROUP) THEN FALSE ELSE single_group

\* if let Some((_, CodeAction {action_kind: kind::ELSE, ..})) = iter.peek()
PeekIsElse(l, p) == PeekKindIs(l, p, kind_ELSE)

\* A fresh activation of from_iter entered with the cursor at p (start is history)
NewFrame(l, p, single_group) ==
    [single_group |-> single_group,
     stop_immediately |-> StopImmediately(l, p, single_group),
     output |-> <<>>,
     pc |-> "loop",
     i |-> NoIndex,
     if_else |-> <<>>,
     if_body |-> <<>>,
     start |-> p]

\* Some((if_body, else_body))
SomeIfElse(if_body, else_body) == <<[if_body |-> if_body, else_body |-> else_body]>>

\* Mutation: a question whose two branches are empty gets None
IfElseNonEmpty(action, if_body, else_body) ==
    IF action.is_condition /\ (if_body # <<>> \/ else_body # <<>>)
    THEN SomeIfElse(if_body, else_body) ELSE <<>>

\* let if_else = if action.is_condition { Some(..) } else { None }
IfElse(action, if_body, else_body) ==
    IF action.is_condition THEN SomeIfElse(if_body, else_body) ELSE <<>>

\* target: if action.applies_to_something {Some(action.applies_to)} else {None}
Target(action) == IF action.applies_to_something THEN <<action.applies_to>> ELSE <<>>

\* action.param_strings.iter().take(action.param_count)
TakenParams(action) ==
    SubSeq(action.param_strings, 1, Min(action.param_count, Len(action.param_strings)))

\* .map(|x| compiler.compile_expression(x)).collect::<Result<Vec<_>, _>>():
\* the texts handed to the compiler, up to and including the first rejected one
RECURSIVE ArgTexts(_)
ArgTexts(texts) ==
    IF texts = <<>> THEN <<>>
    ELSE IF compile_expression(Head(texts))[1] = "Err" THEN <<Head(texts)>>
    ELSE <<Head(texts)>> \o ArgTexts(Tail(texts))

\* The collected Result: Ok(nodes) or the first Err
RECURSIVE CollectArgs(_)
CollectArgs(texts) ==
    IF texts = <<>> THEN <<"Ok", <<>>>>
    ELSE LET first == compile_expression(Head(texts))
         IN IF first[1] = "Err" THEN first
            ELSE LET rest == CollectArgs(Tail(texts))
                 IN IF rest[1] = "Err" THEN rest
                    ELSE <<"Ok", <<first[2]>> \o rest[2]>>

\* Mutation: the branches are not attached to the node
MkActionNoBranches(i, action, args, body, if_else) ==
    [index |-> i,
     target |-> Target(action),
     args |-> args,
     relative |-> action.is_relative,
     invert_condition |-> action.invert_condition,
     body |-> body,
     if_else |-> IF if_else = <<>> THEN <<>> ELSE SomeIfElse(<<>>, <<>>)]

\* Action { index, target, args, relative, invert_condition, body, if_else }
MkAction(i, action, args, body, if_else) ==
    [index |-> i,
     target |-> Target(action),
     args |-> args,
     relative |-> action.is_relative,
     invert_condition |-> action.invert_condition,
     body |-> body,
     if_else |-> if_else]

\* mappings::FUNCTIONS.iter().find(|(n, _, _)| n == &action.fn_name)
FindFunction(name) == {f \in FUNCTIONS : f[1] = name}

\* Mutation: the error counts records from 1
UnknownFunctionErrorOneBased(action, i) ==
    <<"Unknown function: ", action.fn_name, " in action ", ToString(i + 1)>>

\* format!("Unknown function: {} in action {}", action.fn_name, i)
UnknownFunctionError(action, i) ==
    <<"Unknown function: ", action.fn_name, " in action ", ToString(i)>>

\* .map_err(|e| e.message)
MapErr(message) == message

\* Calls logged on the compiler for record i
Calls(i, op, texts) == [k \in 1..Len(texts) |-> [index |-> i, op |-> op, text |-> texts[k]]]

\* Mutation: a record with nothing to execute still gets a node, with an empty body
ExecNoneEmptyBody(i, action, if_else) ==
    [tag |-> "push", node |-> MkAction(i, action, <<>>, <<"Code", <<>>>>, if_else), calls |-> <<>>]

\* execution_type::NONE => ()
ExecNone(i, action, if_else) == [tag |-> "none", calls |-> <<>>]

\* Mutation: a function that is not in the table is skipped, not fatal
ExecFunctionSkipUnknown(i, action, if_else) ==
    LET found == FindFunction(action.fn_name)
        args == CollectArgs(TakenParams(action))
        calls == Calls(i, "compile_expression", ArgTexts(TakenParams(action)))
    IN IF found = {}
       THEN [tag |-> "none", calls |-> <<>>]
       ELSE IF args[1] = "Err"
       THEN [tag |-> "err", error |-> MapErr(args[2]), calls |-> calls]
       ELSE [tag |-> "push",
             node |-> MkAction(i, action, args[2],
                               <<"Function", (CHOOSE f \in found : TRUE)[2]>>, if_else),
             calls |-> calls]

\* execution_type::FUNCTION => { ... }
ExecFunction(i, action, if_else) ==
    LET found == FindFunction(action.fn_name)
        args == CollectArgs(TakenParams(action))
        calls == Calls(i, "compile_expression", ArgTexts(TakenParams(action)))
    IN IF found = {}
       THEN [tag |-> "err", error |-> UnknownFunctionError(action, i), calls |-> <<>>]
       ELSE IF args[1] = "Err"
       THEN [tag |-> "err", error |-> MapErr(args[2]), calls |-> calls]
       ELSE [tag |-> "push",
             node |-> MkAction(i, action, args[2],
                               <<"Function", (CHOOSE f \in found : TRUE)[2]>>, if_else),
             calls |-> calls]

\* Mutation: inline code is read from fn_code
InlineCodeSourceFnCode(action) == <<action.fn_code>>

\* action.param_strings.get(0)
InlineCodeSource(action) ==
    IF Len(action.param_strings) > 0 THEN <<action.param_strings[1]>> ELSE <<>>

\* action.action_kind == kind::CODE: param 0 is the code, compiled with 0 params
ExecInlineCode(i, action, if_else) ==
    LET src == InlineCodeSource(action)
        body == IF src = <<>> THEN <<"Ok", <<>>>> ELSE compile(src[1])
        calls == Calls(i, "compile", src)
    IN IF body[1] = "Err"
       THEN [tag |-> "err", error |-> MapErr(body[2]), calls |-> calls]
       ELSE [tag |-> "push",
             node |-> MkAction(i, action, <<>>, <<"Code", body[2]>>, if_else),
             calls |-> calls]

\* else branch of execution_type::CODE | _ : args from params, body from fn_code
ExecFnCode(i, action, if_else) ==
    LET args == CollectArgs(TakenParams(action))
        argcalls == Calls(i, "compile_expression", ArgTexts(TakenParams(action)))
        body == compile(action.fn_code)
        bodycalls == Calls(i, "compile", <<action.fn_code>>)
    IN IF args[1] = "Err"
       THEN [tag |-> "err", error |-> MapErr(args[2]), calls |-> argcalls]
       ELSE IF body[1] = "Err"
       THEN [tag |-> "err", error |-> MapErr(body[2]), calls |-> argcalls \o bodycalls]
       ELSE [tag |-> "push",
             node |-> MkAction(i, action, args[2], <<"Code", body[2]>>, if_else),
             calls |-> argcalls \o bodycalls]

\* execution_type::CODE | _ => { if action.action_kind == kind::CODE {..} else {..} }
ExecCode(i, action, if_else) ==
    IF action.action_kind = kind_CODE
    THEN ExecInlineCode(i, action, if_else)
    ELSE ExecFnCode(i, action, if_else)

\* Mutation: nodes are collected in reverse
PushFront(output, node) == <<node>> \o output

\* output.push(node)
Push(output, node) == Append(output, node)

\* Mutation: an END_GROUP record ends the loop in every call, the top-level one too
ShouldStopAnyGroup(single_group, action, stop_immediately) ==
    action.action_kind = kind_END_GROUP \/ stop_immediately

\* if (single_group && action.action_kind == kind::END_GROUP) || stop_immediately { break; }
ShouldStop(single_group, action, stop_immediately) ==
    (single_group /\ action.action_kind = kind_END_GROUP) \/ stop_immediately

----
\* Inputs: gm8exe CodeAction records

CodeAction(kind, exec, cond, fn_name, fn_code, params, count, applies) ==
    [action_kind |-> kind,
     execution_type |-> exec,
     is_condition |-> cond,
     fn_name |-> fn_name,
     fn_code |-> fn_code,
     param_strings |-> params,
     param_count |-> count,
     applies_to_something |-> applies,
     applies_to |-> 0 - 1,
     is_relative |-> FALSE,
     invert_condition |-> cond /\ ~applies]

\* The structural markers as GM8 writes them: nothing to execute, not a question
BeginGroup == CodeAction(kind_BEGIN_GROUP, execution_type_NONE, FALSE, "", "", <<>>, 0, FALSE)
EndGroup == CodeAction(kind_END_GROUP, execution_type_NONE, FALSE, "", "", <<>>, 0, FALSE)
Else == CodeAction(kind_ELSE, execution_type_NONE, FALSE, "", "", <<>>, 0, FALSE)

\* A plain executable action; its second parameter slot is past param_count
Move == CodeAction(kind_NORMAL, execution_type_FUNCTION, FALSE, "action_move", "", <<"1", "bad_b">>, 1, TRUE)
\* Questions: one executable, one with nothing to execute
If == CodeAction(kind_NORMAL, execution_type_FUNCTION, TRUE, "action_if", "", <<"x">>, 1, TRUE)
IfNone == CodeAction(kind_NORMAL, execution_type_NONE, TRUE, "", "", <<>>, 0, FALSE)

\* The alphabet of the arbitrary lists
Records ==
    {BeginGroup, EndGroup, Else, Move, If, IfNone,
     \* a disabled action that would not compile, on every count
     CodeAction(kind_CODE, execution_type_NONE, FALSE, "no_such_function", "bad_code", <<"bad_a">>, 1, TRUE),
     \* unknown functions
     CodeAction(kind_NORMAL, execution_type_FUNCTION, FALSE, "no_such_function", "", <<"1">>, 1, TRUE),
     CodeAction(kind_REPEAT, execution_type_FUNCTION, TRUE, "no_such_function", "", <<"bad_a">>, 1, FALSE),
     \* a known function with a rejected second parameter
     CodeAction(kind_EXIT, execution_type_FUNCTION, FALSE, "action_move", "", <<"1", "bad_b">>, 2, FALSE),
     \* fn_code actions: good, rejected body, rejected parameter
     CodeAction(kind_VARIABLE, execution_type_CODE, FALSE, "", "x = argument0", <<"1", "2">>, 2, TRUE),
     CodeAction(kind_NORMAL, execution_type_CODE, TRUE, "", "bad_code", <<"1">>, 1, TRUE),
     CodeAction(kind_NORMAL, 3, FALSE, "", "x = argument0", <<"bad_a", "bad_b">>, 2, TRUE),
     \* inline code: good with garbage around it, rejected, and without parameters
     CodeAction(kind_CODE, execution_type_CODE, FALSE, "no_such_function", "bad_code", <<"x = 1", "bad_b">>, 2, TRUE),
     CodeAction(kind_CODE, 3, TRUE, "", "bad_code", <<"x = 1">>, 0, FALSE),
     CodeAction(kind_CODE, execution_type_CODE, FALSE, "", "x = 2", <<"bad_a">>, 1, TRUE),
     CodeAction(kind_CODE, execution_type_CODE, FALSE, "", "bad_code", <<>>, 0, TRUE),
     \* markers that do execute
     CodeAction(kind_END_GROUP, execution_type_CODE, FALSE, "", "x = 3", <<>>, 0, FALSE),
     CodeAction(kind_BEGIN_GROUP, execution_type_FUNCTION, TRUE, "action_if", "", <<>>, 0, FALSE)}

\* Longest arbitrary list
MaxLen == 3

\* Longest well-nested list of executable questions
MaxNested == 7

\* All lists of at most n records of S
RECURSIVE Lists(_, _)
Lists(S, n) ==
    IF n = 0 THEN {<<>>}
    ELSE LET shorter == Lists(S, n - 1)
         IN shorter \cup {Append(l, r) : l \in {x \in shorter : Len(x) = n - 1}, r \in S}

ArbitraryLists == Lists(Records, MaxLen)

\* Well-nested lists: a statement is a plain action, a BeginGroup..EndGroup
\* block, or a question followed by a statement and optionally by Else and
\* another statement; a block is a run of statements.
\* Nested(n).stmts[k] holds the statements of exactly k records (k in 1..n),
\* Nested(n).blocks[k + 1] the blocks of exactly k records (k in 0..n).
RECURSIVE Nested(_)
Nested(n) ==
    IF n = 0 THEN [stmts |-> <<>>, blocks |-> <<{<<>>}>>]
    ELSE LET prev == Nested(n - 1)
             groups == {<<BeginGroup>> \o b \o <<EndGroup>> : b \in prev.blocks[n - 1]}
             ifs == {<<If>> \o t : t \in prev.stmts[n - 1]}
             ifelses == UNION {{<<If>> \o t \o <<Else>> \o e :
                                   t \in prev.stmts[k], e \in prev.stmts[n - 2 - k]} :
                               k \in 1..(n - 3)}
             stmts == IF n = 1 THEN {<<Move>>} ELSE groups \cup ifs \cup ifelses
             blocks == stmts \cup
                       UNION {{s \o b : s \in prev.stmts[k], b \in prev.blocks[n - k + 1]} :
                                 k \in 1..(n - 1)}
         IN [stmts |-> Append(prev.stmts, stmts), blocks |-> Append(prev.blocks, blocks)]

WellFormed == UNION Range(Nested(MaxNested).blocks)

\* A question with nothing to execute, a statement, Else, and a well-nested
\* list, of at most MaxNested records after the question
DroppedIfElse ==
    LET w == Nested(MaxNested - 1)
    IN UNION {{<<IfNone>> \o t \o <<Else>> \o l : t \in w.stmts[k[1]], l \in w.blocks[k[2] + 1]} :
                 k \in {x \in (1..(MaxNested - 1)) \X (0..(MaxNested - 1)) : x[1] + x[2] < MaxNested}}

\* The well-nested lists, each of them after a question with nothing to
\* execute, and such questions with an Else
NestedLists == WellFormed \cup {<<IfNone>> \o l : l \in WellFormed} \cup DroppedIfElse

----
\* The build as a state machine

Top == stack[Len(stack)]
Caller == stack[Len(stack) - 1]
SetTop(f) == [stack EXCEPT ![Len(stack)] = f]
Running == result[1] = "Running" /\ stack # <<>>

Init ==
    /\ list \in ArbitraryLists \cup NestedLists
    /\ pos = 0
    /\ stack = <<>>
    /\ result = <<"Init">>
    /\ compiler_calls = <<>>
    /\ failed_at = NoIndex
    /\ peeked = {}
    /\ branches_end = {}

\* from_list: let mut iter = ..; Self::from_iter(&mut iter, compiler, false)
FromList ==
    /\ result = <<"Init">>
    /\ result' = <<"Running">>
    /\ stack' = <<NewFrame(list, pos, FALSE)>>
    /\ UNCHANGED <<list, pos, compiler_calls, failed_at, peeked, branches_end>>

\* while let Some((i, action)) = iter.next(), action not a condition
NextAction ==
    /\ Running /\ Top.pc = "loop" /\ pos < Len(list)
    /\ ~Rec(list, pos).is_condition
    /\ pos' = pos + 1
    /\ stack' = SetTop([Top EXCEPT !.i = pos, !.pc = "exec",
                                   !.if_else = IfElse(Rec(list, pos), <<>>, <<>>)])
    /\ UNCHANGED <<list, result, compiler_calls, failed_at, peeked, branches_end>>

\* iter.next() gives a condition: let if_body = Self::from_iter(iter, compiler, true)
NextCondition ==
    /\ Running /\ Top.pc = "loop" /\ pos < Len(list)
    /\ Rec(list, pos).is_condition
    /\ pos' = pos + 1
    /\ stack' = Append(SetTop([Top EXCEPT !.i = pos, !.pc = "if_body"]),
                       NewFrame(list, pos + 1, TRUE))
    /\ UNCHANGED <<list, result, compiler_calls, failed_at, peeked, branches_end>>

\* iter.next() is None: the loop ends
EndOfInput ==
    /\ Running /\ Top.pc = "loop" /\ pos = Len(list)
    /\ stack' = SetTop([Top EXCEPT !.pc = "return"])
    /\ UNCHANGED <<list, pos, result, compiler_calls, failed_at, peeked, branches_end>>

\* if_body returned and the peeked record is ELSE: Self::from_iter(iter, compiler, true)
ElseBody ==
    /\ Running /\ Top.pc = "return" /\ Len(stack) > 1 /\ Caller.pc = "if_body"
    /\ PeekIsElse(list, pos)
    /\ stack' = Append([k \in 1..(Len(stack) - 1) |->
                          IF k = Len(stack) - 1
                          THEN [Caller EXCEPT !.if_body = Top.output, !.pc = "else_body"]
                          ELSE stack[k]],
                       NewFrame(list, pos, TRUE))
    /\ peeked' = peeked \cup {<<Caller.i, pos>>}
    /\ UNCHANGED <<list, pos, result, compiler_calls, failed_at, branches_end>>

\* if_body returned and no ELSE is peeked: else_body = Vec::new()
NoElseBody ==
    /\ Running /\ Top.pc = "return" /\ Len(stack) > 1 /\ Caller.pc = "if_body"
    /\ ~PeekIsElse(list, pos)
    /\ stack' = [k \in 1..(Len(stack) - 1) |->
                   IF k = Len(stack) - 1
                   THEN [Caller EXCEPT !.pc = "exec",
                                       !.if_else = IfElse(Rec(list, Caller.i), Top.output, <<>>)]
                   ELSE stack[k]]
    /\ peeked' = peeked \cup {<<Caller.i, pos>>}
    /\ UNCHANGED <<list, pos, result, compiler_calls, failed_at, branches_end>>

\* else_body returned: Some((if_body, else_body))
ElseReturn ==
    /\ Running /\ Top.pc = "return" /\ Len(stack) > 1 /\ Caller.pc = "else_body"
    /\ stack' = [k \in 1..(Len(stack) - 1) |->
                   IF k = Len(stack) - 1
                   THEN [Caller EXCEPT !.pc = "exec",
                                       !.if_else = IfElse(Rec(list, Caller.i), Caller.if_body, Top.output)]
                   ELSE stack[k]]
    /\ UNCHANGED <<list, pos, result, compiler_calls, failed_at, peeked, branches_end>>

\* The effect of one match arm, then the test that ends the loop
Apply(r) ==
    /\ compiler_calls' = compiler_calls \o r.calls
    /\ IF r.tag = "err"
       THEN /\ result' = <<"Err", r.error>>
            /\ stack' = <<>>
            /\ failed_at' = Top.i
       ELSE /\ stack' = SetTop([Top EXCEPT
                   !.output = IF r.tag = "push" THEN Push(@, r.node) ELSE @,
                   !.pc = IF ShouldStop(Top.single_group, Rec(list, Top.i), Top.stop_immediately)
                          THEN "return" ELSE "loop"])
            /\ UNCHANGED <<result, failed_at>>
    /\ branches_end' = IF Rec(list, Top.i).is_condition
                       THEN branches_end \cup {<<Top.i, pos>>} ELSE branches_end
    /\ UNCHANGED <<list, pos, peeked>>

ExecuteNone ==
    /\ Running /\ Top.pc = "exec"
    /\ Rec(list, Top.i).execution_type = execution_type_NONE
    /\ Apply(ExecNone(Top.i, Rec(list, Top.i), Top.if_else))

ExecuteFunction ==
    /\ Running /\ Top.pc = "exec"
    /\ Rec(list, Top.i).execution_type = execution_type_FUNCTION
    /\ Apply(ExecFunction(Top.i, Rec(list, Top.i), Top.if_else))

ExecuteCode ==
    /\ Running /\ Top.pc = "exec"
    /\ Rec(list, Top.i).execution_type \notin {execution_type_NONE, execution_type_FUNCTION}
    /\ Apply(ExecCode(Top.i, Rec(list, Top.i), Top.if_else))

\* from_list: Ok(Self(..))
ReturnTree ==
    /\ Running /\ Top.pc = "return" /\ Len(stack) = 1
    /\ result' = <<"Ok", Top.output>>
    /\ stack' = <<>>
    /\ UNCHANGED <<list, pos, compiler_calls, failed_at, peeked, branches_end>>

Next ==
    \/ FromList
    \/ NextAction
    \/ NextCondition
    \/ EndOfInput
    \/ ElseBody
    \/ NoElseBody
    \/ ElseReturn
    \/ ExecuteNone
    \/ ExecuteFunction
    \/ ExecuteCode
    \/ ReturnTree

Spec == Init /\ [][Next]_vars

----
\* Reading the built tree

Ok == result[1] = "Ok"
Tree == result[2]
Indices == 0..(Len(list) - 1)

\* Every node of a sequence of nodes, at any depth
RECURSIVE AllNodes(_)
AllNodes(nodes) ==
    IF nodes = <<>> THEN {}
    ELSE LET n == Head(nodes)
         IN {n} \cup AllNodes(Tail(nodes))
                \cup (IF n.if_else = <<>> THEN {}
                      ELSE AllNodes(n.if_else[1].if_body) \cup AllNodes(n.if_else[1].else_body))

\* Source indices depth-first: node, then-branch, else-branch
RECURSIVE Flatten(_)
Flatten(nodes) ==
    IF nodes = <<>> THEN <<>>
    ELSE LET n == Head(nodes)
         IN <<n.index>>
            \o (IF n.if_else = <<>> THEN <<>>
                ELSE Flatten(n.if_else[1].if_body) \o Flatten(n.if_else[1].else_body))
            \o Flatten(Tail(nodes))

Executable(r) == r.execution_type # execution_type_NONE

\* A marker as the format writes it: of the given kind, nothing to execute, no question
Marker(r, k) == r.action_kind = k /\ ~Executable(r) /\ ~r.is_condition

\* An executable record that is neither a question nor of a structural kind
PlainAction(r) ==
    /\ Executable(r) /\ ~r.is_condition
    /\ r.action_kind \notin {kind_BEGIN_GROUP, kind_END_GROUP, kind_ELSE}

\* Records a..b of the list all satisfy P
AllPlain(a, b) == \A j \in a..b : PlainAction(Rec(list, j))

\* c is a question followed by a group of K plain actions, Else, and a group of M
GroupIfElseAt(c, K, M) ==
    /\ c + 5 + K + M < Len(list)
    /\ Rec(list, c).is_condition /\ Executable(Rec(list, c))
    /\ Marker(Rec(list, c + 1), kind_BEGIN_GROUP)
    /\ AllPlain(c + 2, c + 1 + K)
    /\ Marker(Rec(list, c + 2 + K), kind_END_GROUP)
    /\ Marker(Rec(list, c + 3 + K), kind_ELSE)
    /\ Marker(Rec(list, c + 4 + K), kind_BEGIN_GROUP)
    /\ AllPlain(c + 5 + K, c + 4 + K + M)
    /\ Marker(Rec(list, c + 5 + K + M), kind_END_GROUP)

\* C1: a question followed by BeginGroup, K plain actions, EndGroup, Else,
\* BeginGroup, M plain actions, EndGroup gets a then-branch of K nodes and an
\* otherwise-branch of M nodes.
C1_GroupIfElse ==
    Ok => \A c \in Indices : \A K \in 0..Len(list) : \A M \in 0..Len(list) :
            GroupIfElseAt(c, K, M) =>
                \A n \in AllNodes(Tree) :
                    n.index = c => /\ n.if_else # <<>>
                                   /\ Len(n.if_else[1].if_body) = K
                                   /\ Len(n.if_else[1].else_body) = M

\* The EndGroup that closes the group opened before q, by counting depth
RECURSIVE MatchFrom(_, _, _)
MatchFrom(l, q, depth) ==
    IF q >= Len(l) THEN NoIndex
    ELSE IF Rec(l, q).action_kind = kind_BEGIN_GROUP THEN MatchFrom(l, q + 1, depth + 1)
    ELSE IF Rec(l, q).action_kind = kind_END_GROUP
         THEN IF depth = 1 THEN q ELSE MatchFrom(l, q + 1, depth - 1)
    ELSE MatchFrom(l, q + 1, depth)

Match(l, p) == MatchFrom(l, p + 1, 1)

\* Every record of a structural kind is a marker, and every BeginGroup is closed
WellNested(l) ==
    /\ \A j \in 0..(Len(l) - 1) :
          /\ Rec(l, j).action_kind \in {kind_BEGIN_GROUP, kind_END_GROUP, kind_ELSE}
                => Marker(Rec(l, j), Rec(l, j).action_kind)
          /\ Rec(l, j).action_kind = kind_BEGIN_GROUP => Match(l, j) # NoIndex
          /\ Rec(l, j).is_condition => Executable(Rec(l, j))

\* C2: a then/else parse that starts at a BeginGroup returns with the cursor just
\* past the EndGroup matching it at the same depth, and its nodes are those of
\* the records strictly between the two, for every well-nested list.
C2_MatchingEndGroup ==
    \A k \in 1..Len(stack) :
        LET f == stack[k] IN
        (/\ k = Len(stack) /\ f.pc = "return" /\ f.single_group
         /\ PeekKindIs(list, f.start, kind_BEGIN_GROUP)
         /\ WellNested(list))
        => /\ pos = Match(list, f.start) + 1
           /\ {n.index : n \in AllNodes(f.output)}
                = {j \in (f.start + 1)..(Match(list, f.start) - 1) : Executable(Rec(list, j))}

\* The build failed on a compiler diagnostic for record failed_at
CompileFailed ==
    /\ result[1] = "Err" /\ failed_at # NoIndex
    /\ \/ Rec(list, failed_at).execution_type # execution_type_FUNCTION
       \/ FindFunction(Rec(list, failed_at).fn_name) # {}

\* s occurs in t as a contiguous run
Contains(t, s) == \E k \in 0..(Len(t) - Len(s)) : SubSeq(t, k + 1, k + Len(s)) = s

\* C3: when the compiler rejects a parameter or body of record i, the build's
\* error carries the compiler's diagnostic and the index i.
C3_CompileErrorIndexed ==
    CompileFailed =>
        /\ \E c \in Range(compiler_calls) : c.index = failed_at /\ Contains(result[2], Message(c.text))
        /\ ToString(failed_at) \in Range(result[2])

\* The build is about to look up the function of a FUNCTION record that names none
AtUnknownFunction ==
    /\ Running /\ Top.pc = "exec"
    /\ Rec(list, Top.i).execution_type = execution_type_FUNCTION
    /\ \A f \in FUNCTIONS : f[1] # Rec(list, Top.i).fn_name

\* C4: once the build reaches a FUNCTION record i whose name is not in the
\* table, at any depth, it ends with an error naming the function and i, every
\* active call is abandoned, and no tree is returned.
C4_UnknownFunctionFatal ==
    [][AtUnknownFunction =>
          /\ result'[1] = "Err" /\ Len(result') = 2
          /\ result'[2][2] = Rec(list, Top.i).fn_name
          /\ result'[2][4] = ToString(Top.i)
          /\ stack' = <<>>
          /\ failed_at' = Top.i]_vars

C4_Witness ==
    /\ result[1] = "Err" /\ result[2][1] = "Unknown function: "
    /\ failed_at = 2 /\ Rec(list, 0).is_condition /\ Rec(list, 1).is_condition

\* The nodes built for questions, with their branches
Questions == {n \in AllNodes(Tree) : Rec(list, n.index).is_condition}
Then(n) == n.if_else[1].if_body
Otherwise(n) == n.if_else[1].else_body

\* The record after the then-statement of question n is not an Else
NoElseAfterThen(n) == \A p \in 0..Len(list) : <<n.index, p>> \in peeked => ~PeekKindIs(list, p, kind_ELSE)

\* Question n is immediately followed by a record that is not a BeginGroup
SingleStatement(n) ==
    n.index + 1 < Len(list) /\ Rec(list, n.index + 1).action_kind # kind_BEGIN_GROUP

\* C5 as claimed: a question immediately followed by one record that is not a
\* BeginGroup gets a then-branch of exactly one node, and an empty
\* otherwise-branch when the record after that statement is not an Else.
C5_SingleStatementAny ==
    Ok => \A n \in Questions :
            SingleStatement(n) =>
                /\ n.if_else # <<>>
                /\ Len(Then(n)) = 1
                /\ NoElseAfterThen(n) => Otherwise(n) = <<>>

\* C5 amended: as C5, for a following record whose execution type is not None;
\* the one node of the then-branch is that record's.
C5_SingleStatement ==
    Ok => \A n \in Questions :
            (SingleStatement(n) /\ Executable(Rec(list, n.index + 1))) =>
                /\ n.if_else # <<>>
                /\ Len(Then(n)) = 1
                /\ Then(n)[1].index = n.index + 1
                /\ NoElseAfterThen(n) => Otherwise(n) = <<>>

\* A question whose single then-statement is itself a question with a branch
C5_Witness ==
    /\ Ok /\ pos = Len(list)
    /\ \E n \in Questions :
          /\ SingleStatement(n) /\ Executable(Rec(list, n.index + 1))
          /\ Rec(list, n.index + 1).is_condition
          /\ Len(Then(n)) = 1 /\ Then(Then(n)[1]) # <<>>
          /\ NoElseAfterThen(n) /\ Otherwise(n) = <<>>
          /\ n.index + 3 < Len(list)

\* C6: no node of a built tree, at any depth, comes from a record whose
\* execution type is None, and such a record never makes the build fail nor
\* reaches the compiler.
C6_DroppedNoOps ==
    /\ Ok => \A n \in AllNodes(Tree) : Executable(Rec(list, n.index))
    /\ failed_at # NoIndex => Executable(Rec(list, failed_at))
    /\ \A c \in Range(compiler_calls) : Executable(Rec(list, c.index))

\* A tree was built from a list holding a disabled action that names no
\* function and would not compile, and a question with nothing to execute
C6_Witness ==
    /\ Ok /\ Tree # <<>>
    /\ \E j \in Indices :
          /\ ~Executable(Rec(list, j)) /\ Rec(list, j).fn_code \in BadSources
          /\ Rec(list, j).fn_name = "no_such_function"
    /\ \E j \in Indices : ~Executable(Rec(list, j)) /\ Rec(list, j).is_condition

\* C7: in a built tree a node has branches exactly when its record is a question.
C7_BranchesIffCondition ==
    Ok => \A n \in AllNodes(Tree) : (n.if_else # <<>>) <=> Rec(list, n.index).is_condition

\* A tree with a question whose two branches are empty, one whose then-branch
\* is not, and a node without branches
C7_Witness ==
    /\ Ok
    /\ \E n \in AllNodes(Tree) : n.if_else = SomeIfElse(<<>>, <<>>)
    /\ \E n \in AllNodes(Tree) : n.if_else # <<>> /\ Then(n) # <<>>
    /\ \E n \in AllNodes(Tree) : n.if_else = <<>>

\* Source indices of a node sequence strictly increase
Increasing(nodes) == \A a, b \in 1..Len(nodes) : a < b => nodes[a].index < nodes[b].index

\* C8: in a built tree the top-level forest and every branch list its nodes by
\* strictly increasing source index, and every node of a question's branches
\* has an index above the question's.
C8_SourceOrder ==
    Ok => /\ Increasing(Tree)
          /\ \A n \in AllNodes(Tree) :
                n.if_else # <<>> =>
                    /\ Increasing(Then(n)) /\ Increasing(Otherwise(n))
                    /\ \A m \in AllNodes(Then(n)) \cup AllNodes(Otherwise(n)) : m.index > n.index

\* A forest of two nodes or more holding a then-branch of two nodes or more
C8_Witness ==
    /\ Ok /\ Len(Tree) >= 2
    /\ \E n \in AllNodes(Tree) : n.if_else # <<>> /\ Len(Then(n)) >= 2

\* Record j is inline code that gets compiled
InlineCodeAt(j) ==
    /\ Rec(list, j).action_kind = kind_CODE
    /\ Rec(list, j).execution_type \notin {execution_type_NONE, execution_type_FUNCTION}

\* C9: for an inline-code record the compiler is handed param_strings[0] and
\* nothing else (nothing at all without parameters), the node has no arguments
\* and the compiled parameter as body (an empty body without parameters), and
\* the build fails at the record only if param_strings[0] is rejected.
C9_InlineCodeOnly ==
    \A j \in Indices : InlineCodeAt(j) =>
        LET r == Rec(list, j)
            calls == SelectSeq(compiler_calls, LAMBDA c : c.index = j)
        IN /\ Len(calls) <= 1
           /\ \A c \in Range(calls) :
                 /\ r.param_strings # <<>>
                 /\ c.op = "compile" /\ c.text = r.param_strings[1]
           /\ failed_at = j => r.param_strings # <<>> /\ r.param_strings[1] \in BadSources
           /\ Ok => \A n \in AllNodes(Tree) :
                       n.index = j =>
                           /\ n.args = <<>>
                           /\ n.body = IF r.param_strings = <<>> THEN <<"Code", <<>>>>
                                       ELSE <<"Code", <<"Instructions", r.param_strings[1]>>>>

\* A tree with a node for an inline-code record whose fn_code and second
\* parameter the compiler would reject, and one for a record without parameters
C9_Witness ==
    /\ Ok
    /\ \E n \in AllNodes(Tree) :
          /\ InlineCodeAt(n.index)
          /\ Rec(list, n.index).fn_code \in BadSources
          /\ Len(Rec(list, n.index).param_strings) = 2
          /\ Rec(list, n.index).param_strings[2] \in BadSources
    /\ \E n \in AllNodes(Tree) :
          InlineCodeAt(n.index) /\ Rec(list, n.index).param_strings = <<>>

\* Records p and q are a BeginGroup and an EndGroup around executable records
GroupAround(p, q) ==
    /\ p < q
    /\ Rec(list, p).action_kind = kind_BEGIN_GROUP
    /\ Rec(list, q).action_kind = kind_END_GROUP
    /\ \A j \in (p + 1)..(q - 1) : Executable(Rec(list, j))

\* The flattened tree, restricted to the indices strictly between p and q
Inner(p, q) == SelectSeq(Flatten(Tree), LAMBDA x : p < x /\ x < q)

\* The indices strictly between p and q, in order
Between(p, q) == [k \in 1..(q - p - 1) |-> p + k]

\* C10 as claimed: for a BeginGroup..EndGroup pair around N executable records,
\* the depth-first flattening of the built tree holds exactly those N records,
\* each once, in their original order.
C10_RoundTripAny ==
    Ok => \A p, q \in Indices : GroupAround(p, q) => Inner(p, q) = Between(p, q)

\* C10 amended: as C10, when no question with execution type None comes before
\* the group.
C10_RoundTrip ==
    Ok => \A p, q \in Indices :
            (/\ GroupAround(p, q)
             /\ \A j \in 0..(p - 1) : Rec(list, j).is_condition => Executable(Rec(list, j)))
            => Inner(p, q) = Between(p, q)

\* A group of three records, a question with its statement and one more, is
\* the then-branch of a question and comes back in order
C10_Witness ==
    /\ Ok
    /\ \E p, q \in Indices :
          /\ GroupAround(p, q) /\ q = p + 4 /\ p > 0
          /\ Rec(list, p - 1).is_condition /\ Executable(Rec(list, p - 1))
          /\ Rec(list, p + 1).is_condition
          /\ Inner(p, q) = Between(p, q)

----
\* Termination and the cursor

\* The build runs to its end once started: from_list is one sequential call
FairSpec == Spec /\ WF_vars(Next)

\* from_list has returned
Done == result[1] \in {"Ok", "Err"}

\* A step leaves the cursor alone or moves it one record forward, and then the
\* record read is the one at the cursor, taken by the innermost active call
CursorStep ==
    \/ pos' = pos
    \/ /\ pos' = pos + 1
       /\ Running /\ Top.pc = "loop"
       /\ stack'[Len(stack)].i = pos

\* The top-level call returns only with the input exhausted
TopLevelToEnd == (Running /\ Len(stack) = 1 /\ Top.pc = "return") => pos = Len(list)

\* C11: the build terminates on every list; the shared cursor only moves
\* forward, one record at a time, each record read once by the active call; the
\* top-level parse stops only at end of input, so on success every record has
\* been consumed, an EndGroup met at top level included.
C11_TerminatesAtEnd ==
    /\ <>Done
    /\ [][CursorStep]_vars
    /\ [](TopLevelToEnd /\ (Ok => pos = Len(list)) /\ pos \in 0..Len(list))

\* A tree built from a list that opens with an EndGroup at top level and goes
\* on with a question and its then-branch
C11_Witness ==
    /\ Ok /\ pos = Len(list) /\ Len(list) >= 3
    /\ Rec(list, 0).action_kind = kind_END_GROUP
    /\ \E n \in AllNodes(Tree) : n.index > 0 /\ n.if_else # <<>> /\ n.if_else[1].if_body # <<>>

----
\* Questions with nothing to execute

\* Question i was dropped after its branches had taken the records up to p
DroppedQuestion(i, p) ==
    /\ <<i, p>> \in branches_end
    /\ Rec(list, i).is_condition /\ ~Executable(Rec(list, i))

\* Last record of the else-group that starts at record e: the EndGroup matching
\* a BeginGroup at e, or e itself for a single statement
ElseGroupEnd(e) ==
    IF Rec(list, e).action_kind = kind_BEGIN_GROUP /\ Match(list, e) # NoIndex
    THEN Match(list, e) ELSE e

\* C12: a question with execution type None still has its then-group, and its
\* else-group when an Else follows, parsed and consumed, and the branches are
\* discarded with it: on success no record consumed as its branches is a node
\* of the tree, and parsing resumes after them.
C12_DroppedBranches ==
    \A i \in Indices : \A p \in 0..Len(list) :
        DroppedQuestion(i, p) =>
            /\ p <= pos
            /\ i + 1 < Len(list) => p > i + 1
            /\ Ok => \A n \in AllNodes(Tree) : n.index < i \/ n.index >= p
            /\ \A q \in 0..Len(list) :
                  (/\ <<i, q>> \in peeked
                   /\ q + 1 < Len(list)
                   /\ Marker(Rec(list, q), kind_ELSE))
                  => /\ p > ElseGroupEnd(q + 1)
                     /\ Ok => \A n \in AllNodes(Tree) :
                                 n.index < i \/ n.index > ElseGroupEnd(q + 1)

----
\* Which error a failing build returns

\* Record r names a function that is not in the table
UnknownName(r) ==
    r.execution_type = execution_type_FUNCTION /\ r.fn_name \notin {f[1] : f \in FUNCTIONS}

\* The texts of record r that its processing hands to the compiler, in order
TextsOf(r) ==
    LET params == [k \in 1..Min(r.param_count, Len(r.param_strings)) |-> r.param_strings[k]]
    IN IF r.execution_type = execution_type_FUNCTION THEN params
       ELSE IF r.action_kind = kind_CODE
       THEN (IF r.param_strings = <<>> THEN <<>> ELSE <<r.param_strings[1]>>)
       ELSE params \o <<r.fn_code>>

\* Processing record r by itself returns an error
WouldFail(r) ==
    Executable(r) /\ (UnknownName(r) \/ \E k \in 1..Len(TextsOf(r)) : TextsOf(r)[k] \in BadSources)

\* The error of record j: the unknown function, or the first rejected text
ErrorOf(j) ==
    LET r == Rec(list, j)
        t == TextsOf(r)
        first == CHOOSE k \in 1..Len(t) : t[k] \in BadSources /\ \A m \in 1..(k - 1) : t[m] \notin BadSources
    IN IF UnknownName(r)
       THEN <<"Unknown function: ", r.fn_name, " in action ", ToString(j)>>
       ELSE <<"syntax error in ", t[first]>>

\* The questions whose branches are being parsed, innermost call excluded
Enclosing == {stack[m].i : m \in 1..(Len(stack) - 1)}

\* C13: a failing build returns the first error in traversal order, a
\* question's branches going before the question's own lookup and compilation:
\* the failing record j is the one being processed; every record read after j
\* (its branches) passed; every failing record before j is a question still
\* waiting for the branches that hold j; and a build succeeds only if no record
\* fails.
C13_FirstError ==
    /\ [][(result[1] = "Running" /\ result'[1] = "Err") =>
            LET j == Top.i IN
            /\ failed_at' = j
            /\ WouldFail(Rec(list, j))
            /\ result'[2] = ErrorOf(j)
            /\ \A k \in (j + 1)..(pos - 1) : ~WouldFail(Rec(list, k))
            /\ \A k \in 0..(j - 1) :
                  WouldFail(Rec(list, k)) => (k \in Enclosing /\ Rec(list, k).is_condition)]_vars
    /\ [](Ok => \A k \in Indices : ~WouldFail(Rec(list, k)))

\* The build failed at a record inside the branches of a failing question,
\* with another failing record after it
C13_Witness ==
    /\ result[1] = "Err" /\ failed_at >= 1
    /\ \E k \in 0..(failed_at - 1) : WouldFail(Rec(list, k)) /\ Rec(list, k).is_condition
    /\ \E k \in (failed_at + 1)..(Len(list) - 1) : WouldFail(Rec(list, k))

====
